---------------------------- MODULE Spec2Model ----------------------------
(***************************************************************************)
(* Model of the pr-agent MCP server (projects/unit3/build-mcp-server/      *)
(* starter/server.py): the three tool handlers analyze_file_changes,       *)
(* get_pr_templates and suggest_template.                                  *)
(*                                                                         *)
(* A text (the stdout of a git command, the returned diff) is a sequence   *)
(* of characters.  A line is such a sequence without line boundaries.      *)
(***************************************************************************)
EXTENDS Integers, Sequences, FiniteSets, TLC

\* ------------------------------------------------------------------ bounds
\* Longest raw diff text, in characters.
MaxDiffLen == 4
\* Largest max_diff_lines a caller passes (the smallest is -1).
MaxCap == 2
\* Most lines in a name-status listing.
MaxListingLines == 2
\* Most files in the template directory.
MaxTemplates == 2

\* -------------------------------------------------------------- characters
LF  == "\n"
FF  == "\f"
TAB == "\t"
SP  == " "

\* The line boundaries str.splitlines() splits on that can occur in the
\* decoded stdout (text=True has already turned \r\n and \r into \n).
LineBoundaries == {LF, FF}

\* The characters str.strip() removes.
Whitespace == {SP, TAB, LF, FF}

\* ------------------------------------------------------------ str methods
Last(s) == s[Len(s)]

\* text.splitlines(): the lines of text, boundaries dropped; a text that ends
\* with a boundary has no empty last line, and "" has no lines.
RECURSIVE SplitLinesFrom(_, _, _)
SplitLinesFrom(text, i, cur) ==
    IF i > Len(text)
    THEN IF cur = <<>> THEN <<>> ELSE <<cur>>
    ELSE IF text[i] \in LineBoundaries
         THEN <<cur>> \o SplitLinesFrom(text, i + 1, <<>>)
         ELSE SplitLinesFrom(text, i + 1, Append(cur, text[i]))

SplitLines(text) == SplitLinesFrom(text, 1, <<>>)

\* text.split(sep): the fields between the occurrences of sep; always at
\* least one field.
RECURSIVE SplitFrom(_, _, _, _)
SplitFrom(text, sep, i, cur) ==
    IF i > Len(text)
    THEN <<cur>>
    ELSE IF text[i] = sep
         THEN <<cur>> \o SplitFrom(text, sep, i + 1, <<>>)
         ELSE SplitFrom(text, sep, i + 1, Append(cur, text[i]))

Split(text, sep) == SplitFrom(text, sep, 1, <<>>)

\* A mutant of Join: every line keeps a terminator, the last one too.
RECURSIVE JoinTerminated(_, _)
JoinTerminated(sep, lines) ==
    IF lines = <<>> THEN <<>>
    ELSE lines[1] \o <<sep>> \o JoinTerminated(sep, Tail(lines))

\* sep.join(lines)
RECURSIVE Join(_, _)
Join(sep, lines) ==
    IF lines = <<>> THEN <<>>
    ELSE IF Len(lines) = 1 THEN lines[1]
    ELSE lines[1] \o <<sep>> \o Join(sep, Tail(lines))

\* line.strip()
RECURSIVE LStrip(_)
LStrip(s) ==
    IF s # <<>> /\ s[1] \in Whitespace THEN LStrip(Tail(s)) ELSE s

RECURSIVE RStrip(_)
RStrip(s) ==
    IF s # <<>> /\ Last(s) \in Whitespace
    THEN RStrip(SubSeq(s, 1, Len(s) - 1)) ELSE s

Strip(s) == RStrip(LStrip(s))

\* lines[:n], with Python's meaning of a negative n.
SliceTo(lines, n) ==
    IF n >= 0
    THEN SubSeq(lines, 1, IF n < Len(lines) THEN n ELSE Len(lines))
    ELSE SubSeq(lines, 1, IF Len(lines) + n > 0 THEN Len(lines) + n ELSE 0)


\* ------------------------------------------------- name-status parsing
\* The status letters git diff --name-status reports.
StatusLetters == {"A", "C", "D", "M", "R", "T", "U", "X", "B"}
Digits == {"0", "1", "2", "3", "4", "5", "6", "7", "8", "9"}

\* A mutant of ChangeRecord: the path is the second column (for a rename,
\* the source path) and not the last one.
ChangeRecord_SecondColumn(line) ==
    LET parts == Split(line, TAB)
    IN  [path |-> IF Len(parts) >= 2 THEN parts[2] ELSE parts[1],
         status |-> parts[1]]

\* One record of changed_files, from one line of the listing.
ChangeRecord(line) ==
    LET parts == Split(line, TAB)
    IN  [path |-> Last(parts), status |-> parts[1]]

RECURSIVE RecordsOf(_)
RecordsOf(lines) ==
    IF lines = <<>> THEN <<>>
    ELSE IF Strip(lines[1]) = <<>>
         THEN RecordsOf(Tail(lines))
         ELSE <<ChangeRecord(lines[1])>> \o RecordsOf(Tail(lines))

\* changed_files, from the stdout of git diff --name-status.
ParseNameStatus(name_status) == RecordsOf(SplitLines(name_status))

\* ---------------------------------------------------- shortstat parsing
\* The shortstat line is a sequence of words; a number is a word of digits.
IntOf(word) ==
    CASE word = "1" -> 1 [] word = "3" -> 3 [] word = "4" -> 4
      [] word = "5" -> 5 [] word = "20" -> 20 [] OTHER -> 0

IsNumber(word) == word \in {"1", "3", "4", "5", "20"}

\* re.search(r"(\d+)\s+<unit>", numstat): the number before the first match
\* of the unit's words, 0 when there is none.
CountBefore(numstat, units) ==
    LET hits == {i \in 1..(Len(numstat) - 1) :
                    IsNumber(numstat[i]) /\ numstat[i + 1] \in units}
    IN  IF hits = {} THEN 0
        ELSE IntOf(numstat[CHOOSE i \in hits : \A j \in hits : i <= j])

ParseShortstat(numstat) ==
    [files      |-> CountBefore(numstat, {"file changed", "files changed"}),
     insertions |-> CountBefore(numstat, {"insertion(+)", "insertions(+)"}),
     deletions  |-> CountBefore(numstat, {"deletion(-)", "deletions(-)"})]

\* --------------------------------------------------------- diff body
\* The text of the truncation marker after its leading newline; it holds no
\* line boundary and stands in the text as one element.
MarkerText(n) == "--- Diff truncated at " \o ToString(n) \o " lines ---"

\* The element the code appends to lines: "\n--- Diff truncated at N lines ---".
Marker(n) == <<LF, MarkerText(n)>>

\* A mutant of DiffBody: the cap is compared with >= and not with >.
DiffBody_CapInclusive(full_diff, max_diff_lines) ==
    LET lines == SplitLines(full_diff)
    IN  IF Len(lines) >= max_diff_lines
        THEN [diff |-> Join(LF, Append(SliceTo(lines, max_diff_lines),
                                       Marker(max_diff_lines))),
              truncated |-> TRUE]
        ELSE [diff |-> Join(LF, lines), truncated |-> FALSE]

\* result["diff"] and result["truncated"], from the stdout of git diff.
DiffBody(full_diff, max_diff_lines) ==
    LET lines == SplitLines(full_diff)
    IN  IF Len(lines) > max_diff_lines
        THEN [diff |-> Join(LF, Append(SliceTo(lines, max_diff_lines),
                                       Marker(max_diff_lines))),
              truncated |-> TRUE]
        ELSE [diff |-> Join(LF, lines), truncated |-> FALSE]

\* ------------------------------------------------------ git commands
VERSION    == 1
REV_PARSE  == 2
NAME_STATUS == 3
SHORTSTAT  == 4
FULL_DIFF  == 5

RangeSpec(base_branch) == base_branch \o "...HEAD"

Extra(pathspec) == IF pathspec # "" THEN <<pathspec>> ELSE <<>>

\* The argument list of the step-th git command of a request.
GitArgs(s, base_branch, pathspec) ==
    CASE s = VERSION     -> <<"git", "--version">>
      [] s = REV_PARSE   -> <<"git", "rev-parse", "--is-inside-work-tree">>
      [] s = NAME_STATUS -> <<"git", "diff", "--name-status",
                              RangeSpec(base_branch)>> \o Extra(pathspec)
      [] s = SHORTSTAT   -> <<"git", "diff", "--shortstat",
                              RangeSpec(base_branch)>> \o Extra(pathspec)
      [] s = FULL_DIFF   -> <<"git", "diff", RangeSpec(base_branch)>>
                              \o (IF pathspec # "" THEN <<"--", pathspec>>
                                  ELSE <<>>)

\* A mutant of WantsDiff: the full diff is fetched whatever include_diff says.
WantsDiff_Always(include_diff) == TRUE

\* Whether the request goes on to the full diff after the shortstat.
WantsDiff(include_diff) == include_diff

\* ------------------------------------------------------- environment
\* What the callers pass and what the outside world answers.

BaseBranches == {"main"}
Pathspecs    == {"", "src/"}
Caps         == (0 - 1)..MaxCap

\* The state of the git executable on PATH.
GitStates == {"installed", "absent", "not_executable"}

\* Directories a host may name as roots; "/gone" is not on disk.
None == "None"
RootLists == {<<>>, <<"/repo">>, <<"/gone">>, <<"/repo", "/gone">>,
              <<"/gone", "/repo">>}
DirExists(dir) == dir # "/gone"

\* Ways get_context() / list_roots() fail: outside a request (ValueError), a
\* context without a session (AttributeError), a host that does not serve
\* roots/list (McpError).
CaughtRootFaults == {"ValueError", "AttributeError"}
RootFaults == CaughtRootFaults \cup {"McpError"}

\* Raw diff texts git prints: empty, or lines that each end with a newline.
RECURSIVE TextsOfLen(_, _)
TextsOfLen(alphabet, n) ==
    IF n = 0 THEN {<<>>}
    ELSE {Append(t, c) : t \in TextsOfLen(alphabet, n - 1), c \in alphabet}

DiffTexts ==
    {<<>>} \cup UNION {{Append(t, LF) : t \in TextsOfLen({"x", LF, FF}, n)} :
                       n \in 0..(MaxDiffLen - 1)}

\* Lines of a name-status listing: a modification, a rename with its
\* similarity score and two paths, and a blank line (which the parser skips).
ListingLines == {<<"M", TAB, "p">>,
                 <<"R", "1", "0", "0", TAB, "p", TAB, "q">>,
                 <<SP>>}

RECURSIVE ListingsOfLen(_)
ListingsOfLen(n) ==
    IF n = 0 THEN {<<>>}
    ELSE {t \o l \o <<LF>> : t \in ListingsOfLen(n - 1), l \in ListingLines}

Listings == UNION {ListingsOfLen(n) : n \in 0..MaxListingLines}

Shortstats == {<<>>,
               <<"1", "file changed", ",", "4", "deletions(-)">>,
               <<"3", "files changed", ",", "20", "insertions(+)", ",",
                 "5", "deletions(-)">>}

StderrTexts == {<<"fatal: bad revision", LF>>}

\* The files of TEMPLATES_DIR.
TemplateFiles == {[name |-> "bug.md", content |-> <<"b", LF>>],
                  [name |-> "feature.md", content |-> <<"f", LF>>],
                  [name |-> "docs.md", content |-> <<"d", LF>>]}
TemplateDirs == {d \in SUBSET TemplateFiles : Cardinality(d) <= MaxTemplates}

ChangeTypes == {"bug", "feature", "docs", "refactor", "test", "chore",
                "other", "unheard-of"}
Summaries == {"fixes a crash", "adds a tool"}

\* ------------------------------------------------------------- state
VARIABLES
    pc,            \* where the request in service stands
    op,            \* the tool invoked
    args,          \* the arguments of analyze_file_changes
    sargs,         \* the arguments of suggest_template
    git,           \* the state of the git executable the request finds
    templates,     \* the files the request finds in TEMPLATES_DIR
    roots,         \* roots_result.roots, once listed
    working_dir,   \* cwd of the git commands; None: the current directory
    step,          \* the git command being run
    cmdLog,        \* the argument lists run_git was called with, in order
    name_status,   \* stdout of git diff --name-status
    changed_files,
    numstat,       \* stdout of git diff --shortstat
    full_diff,     \* stdout of git diff
    doc,           \* the document returned
    fault          \* the exception that left the handler

vars == <<pc, op, args, sargs, git, templates, roots, working_dir, step,
          cmdLog, name_status, changed_files, numstat, full_diff, doc, fault>>

NoDoc   == [pending |-> TRUE]
NoArgs  == [base_branch |-> "main", include_diff |-> TRUE,
            max_diff_lines |-> 0, cwd_from_root |-> FALSE, pathspec |-> ""]
NoSargs == [changes_summary |-> "", change_type |-> ""]

Init ==
    /\ pc = "idle"
    /\ op = "none"
    /\ args = NoArgs
    /\ sargs = NoSargs
    /\ git = "installed"
    /\ templates = {}
    /\ roots = <<>>
    /\ working_dir = None
    /\ step = 0
    /\ cmdLog = <<>>
    /\ name_status = <<>>
    /\ changed_files = <<>>
    /\ numstat = <<>>
    /\ full_diff = <<>>
    /\ doc = NoDoc
    /\ fault = "none"

locals == <<roots, working_dir, step, cmdLog, name_status, changed_files,
            numstat, full_diff>>
world  == <<git, templates>>

\* --------------------------------------------- analyze_file_changes
\* The call arrives; with cwd_from_root the roots are asked for first.
Analyze ==
    /\ pc = "idle"
    /\ \E b \in BaseBranches, i \in BOOLEAN, m \in Caps, c \in BOOLEAN,
          p \in Pathspecs :
          args' = [base_branch |-> b, include_diff |-> i,
                   max_diff_lines |-> m, cwd_from_root |-> c, pathspec |-> p]
    /\ git' \in GitStates
    /\ op' = "analyze_file_changes"
    /\ pc' = IF args'.cwd_from_root THEN "list_roots" ELSE "run_git"
    /\ step' = VERSION
    /\ UNCHANGED <<sargs, templates, roots, working_dir, cmdLog, name_status,
                   changed_files, numstat, full_diff, doc, fault>>

\* list_roots() answers: the first root, if any, is the working directory.
RootsListed ==
    /\ pc = "list_roots"
    /\ \E r \in RootLists :
          /\ roots' = r
          /\ working_dir' = IF r # <<>> THEN r[1] ELSE None
    /\ pc' = "run_git"
    /\ UNCHANGED <<op, args, sargs, world, step, cmdLog, name_status,
                   changed_files, numstat, full_diff, doc, fault>>

\* get_context() or list_roots() raises: ValueError and AttributeError are
\* caught and the current directory is used; anything else leaves the
\* handler, since the outer try catches only CalledProcessError and
\* FileNotFoundError.
RootsFail ==
    /\ pc = "list_roots"
    /\ \E e \in RootFaults :
          IF e \in CaughtRootFaults
          THEN /\ working_dir' = None
               /\ pc' = "run_git"
               /\ UNCHANGED fault
          ELSE /\ fault' = e
               /\ pc' = "raised"
               /\ UNCHANGED working_dir
    /\ UNCHANGED <<op, args, sargs, world, roots, step, cmdLog, name_status,
                   changed_files, numstat, full_diff, doc>>

ThisCmd == GitArgs(step, args.base_branch, args.pathspec)

\* run_git(...) starts the subprocess: with no git on PATH, or with a cwd
\* that is not on disk, subprocess.run raises FileNotFoundError; with a git
\* that may not be executed it raises PermissionError, which nothing catches.
GitLaunch ==
    /\ pc = "run_git"
    /\ cmdLog' = Append(cmdLog, ThisCmd)
    /\ IF git = "absent" \/ ~DirExists(working_dir)
       THEN /\ doc' = [error |-> "git_not_found",
                       hint |-> "Git is not installed or not in PATH."]
            /\ pc' = "returned"
            /\ UNCHANGED fault
       ELSE IF git = "not_executable"
       THEN /\ fault' = "PermissionError"
            /\ pc' = "raised"
            /\ UNCHANGED doc
       ELSE /\ pc' = "wait"
            /\ UNCHANGED <<doc, fault>>
    /\ UNCHANGED <<op, args, sargs, world, roots, working_dir, step,
                   name_status, changed_files, numstat, full_diff>>

\* The subprocess exits non-zero: check=True raises CalledProcessError.
GitFails ==
    /\ pc = "wait"
    /\ \E err \in StderrTexts :
          doc' = [error |-> "git_failed", cmd |-> ThisCmd,
                  stderr |-> Strip(err)]
    /\ pc' = "returned"
    /\ UNCHANGED <<op, args, sargs, world, locals, fault>>

\* The diff holds bytes that are not UTF-8: text=True raises
\* UnicodeDecodeError, which nothing catches.
GitUndecodable ==
    /\ pc = "wait"
    /\ step = FULL_DIFF
    /\ fault' = "UnicodeDecodeError"
    /\ pc' = "raised"
    /\ UNCHANGED <<op, args, sargs, world, locals, doc>>

\* git --version and git rev-parse exit 0: their output is not read.
CheckPasses ==
    /\ pc = "wait"
    /\ step \in {VERSION, REV_PARSE}
    /\ step' = step + 1
    /\ pc' = "run_git"
    /\ UNCHANGED <<op, args, sargs, world, roots, working_dir, cmdLog,
                   name_status, changed_files, numstat, full_diff, doc, fault>>

NameStatusListed ==
    /\ pc = "wait"
    /\ step = NAME_STATUS
    /\ \E out \in Listings :
          /\ name_status' = out
          /\ changed_files' = ParseNameStatus(out)
    /\ step' = SHORTSTAT
    /\ pc' = "run_git"
    /\ UNCHANGED <<op, args, sargs, world, roots, working_dir, cmdLog,
                   numstat, full_diff, doc, fault>>

\* The result dictionary before the diff is added.
Result(base_branch, files, stat) ==
    [base_branch |-> base_branch,
     changed_files |-> files,
     summary |-> ParseShortstat(stat)]

\* The shortstat is parsed; without include_diff the result is returned.
ShortstatRead ==
    /\ pc = "wait"
    /\ step = SHORTSTAT
    /\ \E out \in Shortstats : numstat' = out
    /\ IF WantsDiff(args.include_diff)
       THEN /\ step' = FULL_DIFF
            /\ pc' = "run_git"
            /\ UNCHANGED doc
       ELSE /\ doc' = Result(args.base_branch, changed_files, numstat')
            /\ pc' = "returned"
            /\ UNCHANGED step
    /\ UNCHANGED <<op, args, sargs, world, roots, working_dir, cmdLog,
                   name_status, changed_files, full_diff, fault>>

\* The diff is cut to max_diff_lines and the result is returned.
DiffRead ==
    /\ pc = "wait"
    /\ step = FULL_DIFF
    /\ \E out \in DiffTexts : full_diff' = out
    /\ LET body == DiffBody(full_diff', args.max_diff_lines)
           result == Result(args.base_branch, changed_files, numstat)
       IN  doc' = [base_branch |-> result.base_branch,
                   changed_files |-> result.changed_files,
                   summary |-> result.summary,
                   diff |-> body.diff,
                   truncated |-> body.truncated]
    /\ pc' = "returned"
    /\ UNCHANGED <<op, args, sargs, world, roots, working_dir, step, cmdLog,
                   name_status, changed_files, numstat, fault>>

\* ------------------------------------------------------ the stubs
GetPrTemplates ==
    /\ pc = "idle"
    /\ templates' \in TemplateDirs
    /\ op' = "get_pr_templates"
    /\ doc' = [error |-> "Not implemented yet",
               hint |-> "Read templates from TEMPLATES_DIR"]
    /\ pc' = "returned"
    /\ UNCHANGED <<args, sargs, git, locals, fault>>

SuggestTemplate ==
    /\ pc = "idle"
    /\ \E s \in Summaries, t \in ChangeTypes :
          sargs' = [changes_summary |-> s, change_type |-> t]
    /\ templates' \in TemplateDirs
    /\ op' = "suggest_template"
    /\ doc' = [error |-> "Not implemented yet",
               hint |-> "Map change_type to templates"]
    /\ pc' = "returned"
    /\ UNCHANGED <<args, git, locals, fault>>

\* The request is over; nothing of it is kept.
Finish ==
    /\ pc \in {"returned", "raised"}
    /\ pc' = "idle"
    /\ op' = "none"
    /\ args' = NoArgs
    /\ sargs' = NoSargs
    /\ git' = "installed"
    /\ templates' = {}
    /\ roots' = <<>>
    /\ working_dir' = None
    /\ step' = 0
    /\ cmdLog' = <<>>
    /\ name_status' = <<>>
    /\ changed_files' = <<>>
    /\ numstat' = <<>>
    /\ full_diff' = <<>>
    /\ doc' = NoDoc
    /\ fault' = "none"

Handler ==
    \/ RootsListed \/ RootsFail \/ GitLaunch

GitEnds ==
    \/ GitFails \/ GitUndecodable \/ CheckPasses \/ NameStatusListed
    \/ ShortstatRead \/ DiffRead

Next ==
    \/ Analyze
    \/ Handler
    \/ GitEnds
    \/ GetPrTemplates
    \/ SuggestTemplate
    \/ Finish

Spec == Init /\ [][Next]_vars

\* The handler's own steps are taken when they can be; a git subprocess is
\* not bound to exit, and subprocess.run is given no timeout.
LiveSpec == Spec /\ WF_vars(Handler) /\ WF_vars(Finish)

\* ------------------------------------------------------- properties
Analyzing == op = "analyze_file_changes"
Ended     == pc \in {"returned", "raised"}
IsError   == "error" \in DOMAIN doc
Succeeded == Analyzing /\ pc = "returned" /\ ~IsError
HasDiff   == Succeeded /\ "diff" \in DOMAIN doc

\* L: the line count of the raw diff.
RawLines == SplitLines(full_diff)

\* The returned diff counted as the code's caller counts it: the pieces
\* between newline characters.
ReturnedLines == Split(doc.diff, LF)

\* C1, as claimed: with include_diff, when the raw diff has L lines and
\* L > max_diff_lines >= 0, the returned diff has exactly max_diff_lines + 1
\* newline-separated lines and truncated is true; truncated is true only if
\* L > max_diff_lines.
C1_Original ==
    HasDiff =>
        /\ (args.max_diff_lines >= 0 /\ Len(RawLines) > args.max_diff_lines)
              => /\ Len(ReturnedLines) = args.max_diff_lines + 1
                 /\ doc.truncated
        /\ doc.truncated => Len(RawLines) > args.max_diff_lines

\* C1, amended: with include_diff, when the raw diff has L lines and
\* L > max_diff_lines >= 0, the returned diff has exactly max_diff_lines + 2
\* newline-separated lines (the first max_diff_lines raw lines, an empty
\* line, and the marker line, since the marker itself starts with a newline)
\* and truncated is true; truncated is true only if L > max_diff_lines.
C1_TruncatedDiff ==
    HasDiff =>
        /\ (args.max_diff_lines >= 0 /\ Len(RawLines) > args.max_diff_lines)
              => /\ Len(ReturnedLines) = args.max_diff_lines + 2
                 /\ \A i \in 1..args.max_diff_lines :
                       ReturnedLines[i] = RawLines[i]
                 /\ ReturnedLines[args.max_diff_lines + 1] = <<>>
                 /\ ReturnedLines[args.max_diff_lines + 2]
                       = <<MarkerText(args.max_diff_lines)>>
                 /\ doc.truncated
        /\ doc.truncated => Len(RawLines) > args.max_diff_lines

C1_Witness ==
    /\ HasDiff
    /\ doc.truncated
    /\ args.max_diff_lines >= 1
    /\ \E i \in 1..args.max_diff_lines : RawLines[i] # <<>>

\* C2, as claimed: with include_diff, when the raw diff has L lines and
\* L <= max_diff_lines, the returned diff equals the raw output of git
\* exactly, line terminators included, and truncated is false.
C2_Original ==
    (HasDiff /\ Len(RawLines) <= args.max_diff_lines)
        => doc.diff = full_diff /\ ~doc.truncated

\* The raw text without its final line terminator, if it ends with one.
Unterminated(text) ==
    IF text # <<>> /\ Last(text) \in LineBoundaries
    THEN SubSeq(text, 1, Len(text) - 1) ELSE text

\* C2, amended: with include_diff, when the raw diff has L lines and
\* L <= max_diff_lines, the returned diff is the raw output of git without
\* its final line terminator and with every other line boundary written as
\* one newline character, and truncated is false.
C2_UntruncatedDiff ==
    (HasDiff /\ Len(RawLines) <= args.max_diff_lines)
        => /\ ~doc.truncated
           /\ Len(doc.diff) = Len(Unterminated(full_diff))
           /\ \A i \in 1..Len(doc.diff) :
                 doc.diff[i] = IF full_diff[i] \in LineBoundaries
                               THEN LF ELSE full_diff[i]

C2_Witness ==
    /\ HasDiff
    /\ ~doc.truncated
    /\ Len(RawLines) >= 2
    /\ \E i \in 1..Len(full_diff) : full_diff[i] = FF

\* C3: analyze_file_changes lets no fault escape; a failed launch of git
\* returns exactly {error: "git_not_found", hint}, a git command that exits
\* non-zero returns {error: "git_failed", cmd, stderr} with the failing
\* command, and an error document holds no field of the result.
C3_NoFaultEscapes ==
    Analyzing =>
        /\ pc # "raised"
        /\ (pc = "returned" /\ IsError) =>
              \/ /\ doc.error = "git_not_found"
                 /\ DOMAIN doc = {"error", "hint"}
              \/ /\ doc.error = "git_failed"
                 /\ DOMAIN doc = {"error", "cmd", "stderr"}
                 /\ doc.cmd = Last(cmdLog)

\* C4: with cwd_from_root, a root listing that is unavailable, raises (any
\* failure) or is empty leaves the working directory at the current one and
\* the request goes on to git; a non-empty listing makes its first root the
\* working directory.
C4_ResolverNeverFails ==
    (Analyzing /\ args.cwd_from_root) =>
        /\ fault \notin RootFaults
        /\ pc \in {"run_git", "wait", "returned"} =>
              working_dir = IF roots # <<>> THEN roots[1] ELSE None

\* The non-blank lines of the listing.
ListedLines ==
    SelectSeq(SplitLines(name_status),
              LAMBDA l : \E i \in 1..Len(l) : l[i] \notin Whitespace)

NoTab(s) == \A i \in 1..Len(s) : s[i] # TAB

\* field is the first tab-separated column of line.
IsFirstColumn(field, line) ==
    /\ NoTab(field)
    /\ Len(field) <= Len(line)
    /\ SubSeq(line, 1, Len(field)) = field
    /\ Len(field) < Len(line) => line[Len(field) + 1] = TAB

\* field is the last tab-separated column of line.
IsLastColumn(field, line) ==
    /\ NoTab(field)
    /\ Len(field) <= Len(line)
    /\ SubSeq(line, Len(line) - Len(field) + 1, Len(line)) = field
    /\ Len(field) < Len(line) => line[Len(line) - Len(field)] = TAB

ListingParsed == Analyzing /\ step >= SHORTSTAT

\* C5, as claimed: changed_files has one record per non-blank line of the
\* listing, in the listing's order; each path is the last column of its
\* line and each status is a single status letter.
C5_Original ==
    ListingParsed =>
        /\ Len(changed_files) = Len(ListedLines)
        /\ \A i \in 1..Len(changed_files) :
              /\ IsLastColumn(changed_files[i].path, ListedLines[i])
              /\ Len(changed_files[i].status) = 1
              /\ changed_files[i].status[1] \in StatusLetters

\* C5, amended: changed_files has one record per non-blank line of the
\* listing, in the listing's order; each path is the last column of its
\* line and each status is the first column of its line: a status letter,
\* followed on rename and copy lines by the digits of the similarity score.
C5_ChangedFiles ==
    ListingParsed =>
        /\ Len(changed_files) = Len(ListedLines)
        /\ \A i \in 1..Len(changed_files) :
              /\ IsLastColumn(changed_files[i].path, ListedLines[i])
              /\ IsFirstColumn(changed_files[i].status, ListedLines[i])
              /\ changed_files[i].status[1] \in StatusLetters
              /\ \A k \in 2..Len(changed_files[i].status) :
                    changed_files[i].status[k] \in Digits

C5_Witness ==
    /\ ListingParsed
    /\ Len(SplitLines(name_status)) > Len(changed_files)
    /\ \E i \in 1..Len(changed_files) :
          /\ Len(changed_files[i].status) > 1
          /\ changed_files[i].path = <<"q">>

\* C6: every analyze_file_changes request ends, even when a git subprocess
\* it started never exits.
C6_RequestEnds == Analyzing ~> Ended

\* C7: get_pr_templates on a directory of K >= 1 files returns K descriptors,
\* one per file with the file's full text; only a missing or empty directory
\* gives an error document.
C7_TemplatesListed ==
    (op = "get_pr_templates" /\ pc = "returned") =>
        IF templates # {}
        THEN /\ DOMAIN doc = {"templates"}
             /\ Len(doc.templates) = Cardinality(templates)
             /\ \A f \in templates :
                   \E i \in 1..Len(doc.templates) :
                      doc.templates[i].content = f.content
        ELSE IsError

\* C8: suggest_template returns {template, content, rationale} for every
\* changes_summary and change_type, and never an error document, an
\* unrecognized change_type included.
C8_TemplateSuggested ==
    (op = "suggest_template" /\ pc = "returned") =>
        /\ ~IsError
        /\ DOMAIN doc = {"template", "content", "rationale"}

\* C9: within a request the git commands are issued in the order version
\* check, inside-work-tree check, name-status, shortstat and then the full
\* diff only with include_diff; no command follows the first one that fails;
\* without include_diff the full diff is never issued and the result has
\* neither diff nor truncated.
C9_CommandOrder ==
    Analyzing =>
        /\ Len(cmdLog) <= FULL_DIFF
        /\ \A i \in 1..Len(cmdLog) :
              cmdLog[i] = GitArgs(i, args.base_branch, args.pathspec)
        /\ pc = "run_git" => Len(cmdLog) = step - 1
        /\ pc = "wait" => Len(cmdLog) = step
        /\ (pc = "returned" \/ fault \in {"PermissionError",
                                          "UnicodeDecodeError"})
              => Len(cmdLog) = step
        /\ (pc = "returned" /\ IsError /\ doc.error = "git_failed")
              => doc.cmd = GitArgs(step, args.base_branch, args.pathspec)
        /\ Succeeded =>
              Len(cmdLog) = IF args.include_diff THEN FULL_DIFF
                            ELSE SHORTSTAT
        /\ ~args.include_diff =>
              /\ Len(cmdLog) <= SHORTSTAT
              /\ Succeeded => DOMAIN doc = {"base_branch", "changed_files",
                                            "summary"}

C9_Witness ==
    /\ Succeeded
    /\ ~args.include_diff
    /\ Len(cmdLog) = SHORTSTAT
    /\ Len(doc.changed_files) = 2

\* C10: a document with error "git_not_found" is returned only when the git
\* executable is unavailable, never for a working directory that is not on
\* disk.
C10_NotFoundMeansNoGit ==
    (Analyzing /\ pc = "returned" /\ IsError /\ doc.error = "git_not_found")
        => git = "absent"

=============================================================================
